---- MODULE Spec2Model ----
(***************************************************************************)
(* Model of src/app.py: the request/response pipeline                      *)
(* (user_input -> get_gemini_response -> process_pdf_with_gemini ->        *)
(* process_pdf_data) and the Streamlit session controller (main,           *)
(* show_landing_page, show_main_app).                                      *)
(*                                                                         *)
(* A Python str is modelled as a sequence of tokens (Text): concatenation  *)
(* and f-string interpolation are \o, the empty string is << >>.           *)
(***************************************************************************)
EXTENDS Integers, Sequences, FiniteSets, TLC

----------------------------------------------------------------------------
(* Bounds of the model *)

\* largest number of sources (uploaded files plus URL strings) of one request
MaxSources == 2
\* longest chat history handed directly to process_pdf_data
MaxHist == 3
\* largest number of turns of a session's chat history
MaxTurns == 2

----------------------------------------------------------------------------
(* Text *)

\* an optional value: None, or Some(v)
None == [is_none |-> TRUE, val |-> << >>]

Some(v) == [is_none |-> FALSE, val |-> v]

\* truth value of an optional str: None and "" are falsy
Truthy(o) == ~o.is_none /\ o.val # << >>

WS == " "

NL == "\n"

RECURSIVE lstrip(_)
lstrip(s) == IF s # << >> /\ Head(s) \in {WS, NL} THEN lstrip(Tail(s)) ELSE s

RECURSIVE rstrip(_)
rstrip(s) ==
    IF s # << >> /\ s[Len(s)] \in {WS, NL} THEN rstrip(SubSeq(s, 1, Len(s) - 1)) ELSE s

\* str.strip()
strip(s) == rstrip(lstrip(s))

DigitTok == <<"0", "1", "2", "3", "4", "5", "6", "7", "8", "9">>

\* f"{i}" for a non-negative int: its decimal digits
RECURSIVE format_int(_)
format_int(n) ==
    IF n < 10 THEN <<DigitTok[n + 1]>>
    ELSE format_int(n \div 10) \o <<DigitTok[(n % 10) + 1]>>

\* sep.join(parts)
RECURSIVE join(_, _)
join(sep, parts) ==
    IF parts = << >> THEN << >>
    ELSE IF Len(parts) = 1 THEN parts[1]
    ELSE parts[1] \o sep \o join(sep, Tail(parts))

\* the sequences over S of length at most n
SeqUpTo(S, n) == UNION {[1..k -> S] : k \in 0..n}

----------------------------------------------------------------------------
(* URLs: urllib.parse.urlparse and is_valid_url *)

SchemeTokens == {"https:"}

PathTokens == {"/x.pdf"}

\* the part of url after the scheme
AfterScheme(url) == IF url # << >> /\ Head(url) \in SchemeTokens THEN Tail(url) ELSE url

\* the longest prefix of s holding no path token
RECURSIVE UpToPath(_)
UpToPath(s) ==
    IF s = << >> \/ Head(s) \in PathTokens THEN << >>
    ELSE <<Head(s)>> \o UpToPath(Tail(s))

\* urlparse(url): scheme is what precedes the first ':', netloc is what
\* follows '//' up to the path (user info and port included), hostname is
\* netloc without the port
urlparse(url) ==
    LET rest   == AfterScheme(url)
        netloc == IF Len(rest) >= 1 /\ Head(rest) = "//" THEN UpToPath(Tail(rest)) ELSE << >>
    IN [scheme   |-> IF url # << >> /\ Head(url) \in SchemeTokens THEN <<Head(url)>> ELSE << >>,
        netloc   |-> netloc,
        hostname |-> SelectSeq(netloc, LAMBDA t : t # ":8080")]

is_valid_url_scheme_only(url) == urlparse(url).scheme # << >>

\* lines 21-27: all([result.scheme, result.netloc])
is_valid_url(url) == urlparse(url).scheme # << >> /\ urlparse(url).netloc # << >>

\* the strings a user may enter as URLs
UrlStrings ==
    { <<"https:", "//", "a.com", "/x.pdf">>,
      <<WS, "https:", "//", "b.org", ":8080", WS>>,
      <<"a.com", "/x.pdf">>,
      <<"https:", "/x.pdf">>,
      <<"https:", "//", ":8080", "/x.pdf">>,
      <<WS, WS>> }

\* the uploaded files a user may provide (name, getvalue())
UploadedFiles ==
    { [name |-> <<"x.pdf">>, data |-> "%PDF-x"],
      [name |-> <<"y.pdf">>, data |-> "%PDF-y"] }

----------------------------------------------------------------------------
(* Prompt Builder: process_pdf_data, lines 105-122 *)

base_prompt == "Eres un asistente de inteligencia artificial especializado en licitaciones españolas ..."

HistorialHeader == "\n\nHistorial de la conversación:"

\* the loop body, lines 110-112, for the turns numbered i, i+1, ...
RECURSIVE history_pairs(_, _)
history_pairs(turns, i) ==
    IF turns = << >> THEN << >>
    ELSE <<"\n\nPregunta ">> \o format_int(i) \o <<": ">> \o Head(turns).question
         \o <<"\nRespuesta ">> \o format_int(i) \o <<": ">> \o Head(turns).answer
         \o history_pairs(Tail(turns), i + 1)

\* chat_history[:-1]
AllButLast(s) == IF s = << >> THEN << >> ELSE SubSeq(s, 1, Len(s) - 1)

history_context_all(chat_history) ==
    IF chat_history # << >> /\ Len(chat_history) > 1
    THEN <<HistorialHeader>> \o history_pairs(chat_history, 1) \o <<"\n\n">>
    ELSE << >>

\* lines 107-113; a chat_history of None is the empty sequence (both are falsy)
history_context(chat_history) ==
    IF chat_history # << >> /\ Len(chat_history) > 1
    THEN <<HistorialHeader>> \o history_pairs(AllButLast(chat_history), 1) \o <<"\n\n">>
    ELSE << >>

\* the prompt of line 122
build_prompt(prompt_text, chat_history) ==
    <<base_prompt, "\n\n">> \o history_context(chat_history)
        \o <<"\n\n", "Pregunta: ">> \o prompt_text

----------------------------------------------------------------------------
(* Model Client: the generate_content call of process_pdf_data, lines 125-140 *)

\* the fences of a Markdown json block; the three backquotes are written as
\* apostrophes, a TLA+ string cannot hold a backquote
FenceOpen == "'''json\n"

FenceClose == "\n'''"

JsonDoc == "{\"porcentaje_recomendacion\": \"80%\"}"

\* the texts the model may reply with
Replies == { <<"R1">>, <<FenceOpen, JsonDoc, FenceClose>> }

\* what one generate_content call may do: raise, or return a (maybe empty) text
ModelOutcomes ==
    {[raised |-> TRUE, text |-> << >>]} \cup {[raised |-> FALSE, text |-> t] : t \in Replies \cup {<< >>}}

NoModelCall == [raised |-> TRUE, text |-> << >>]

\* the value process_pdf_data returns, lines 136-140
process_pdf_data(m) == IF m.raised \/ m.text = << >> THEN None ELSE Some(m.text)

----------------------------------------------------------------------------
(* State *)

VARIABLES
    \* st.session_state
    chat_history, file_docs, url_docs, show_main_app, auto_run_complete,
    json_summary_data, predefined_question_trigger,
    \* the answers the display loop of show_main_app rendered in the last script run
    rendered,
    \* position in the running request and the locals of its frames
    pc, call, idx, valid_urls, responses, all_responses, result,
    \* the temporary files that exist on disk
    tmp_files,
    \* the external calls and their outcomes during the running request
    events

session_vars == <<chat_history, file_docs, url_docs, show_main_app, auto_run_complete,
                  json_summary_data, predefined_question_trigger, rendered>>

frame_vars == <<pc, call, idx, valid_urls, responses, all_responses, result>>

vars == <<session_vars, frame_vars, tmp_files, events>>

NoCall == [caller |-> "none", prompt_text |-> << >>, file_docs |-> << >>,
           url_docs |-> << >>, chat_history |-> << >>]

NoJson == [is_none |-> TRUE]

Init ==
    /\ chat_history = << >>
    /\ file_docs = << >>
    /\ url_docs = << >>
    /\ show_main_app = FALSE
    /\ auto_run_complete = FALSE
    /\ json_summary_data = NoJson
    /\ predefined_question_trigger = << >>
    /\ rendered = << >>
    /\ pc = "idle"
    /\ call = NoCall
    /\ idx = 0
    /\ valid_urls = << >>
    /\ responses = << >>
    /\ all_responses = << >>
    /\ result = None
    /\ tmp_files = {}
    /\ events = << >>

Src(type, i) == [type |-> type, idx |-> i]

Ev(op, src, val) == [op |-> op, src |-> src, val |-> val]

----------------------------------------------------------------------------
(* Response Aggregator: user_input, get_gemini_response, process_pdf_with_gemini *)

ErrRequestMsg == "Error: No se pudo procesar la solicitud. Por favor, verifica tu conexión a internet e inténtalo de nuevo."

NoSourcesMsg == "Por favor, sube un archivo PDF o proporciona una URL de PDF primero!"

NoDocsMsg == "Error: No se proporcionaron documentos. Por favor, sube un archivo PDF o proporciona una URL de PDF."

\* get_gemini_response, lines 147-154: a fresh frame, then the loop over file_docs
get_gemini_response(caller, prompt_text, files, urls, history) ==
    /\ call' = [caller |-> caller, prompt_text |-> prompt_text, file_docs |-> files,
                url_docs |-> urls, chat_history |-> history]
    /\ valid_urls' = << >>
    /\ responses' = << >>
    /\ all_responses' = << >>
    /\ result' = None
    /\ events' = <<Ev("get_gemini_response", Src("none", 0), << >>)>>
    /\ pc' = "files" /\ idx' = 1

\* the two early exits of user_input, lines 190-195 and 204-206
input_error(caller, user_question, files, urls, history, value, shown) ==
    /\ call' = [caller |-> caller, prompt_text |-> user_question, file_docs |-> files,
                url_docs |-> urls, chat_history |-> history]
    /\ valid_urls' = << >>
    /\ responses' = << >>
    /\ all_responses' = << >>
    /\ result' = value
    /\ events' = shown
    /\ pc' = "returned" /\ idx' = 0

user_input_unchecked(caller, user_question, files, urls, history) ==
    get_gemini_response(caller, user_question, files, urls, history)

\* user_input, lines 188-206
user_input(caller, user_question, files, urls, history) ==
    IF strip(user_question) = << >>
    THEN \* ValueError("Pregunta vacía"), caught at line 204
         input_error(caller, user_question, files, urls, history,
                     Some(<<ErrRequestMsg>>), << >>)
    ELSE IF files = << >> /\ urls = << >>
    THEN input_error(caller, user_question, files, urls, history,
                     None, <<Ev("st_error", Src("none", 0), <<NoSourcesMsg>>)>>)
    ELSE get_gemini_response(caller, user_question, files, urls, history)

after_source_abort(i, n, raised) == IF raised THEN n + 1 ELSE i + 1

\* lines 92-94: an exception of one source is logged and the loop continues
\* with the next source
after_source(i, n, raised) == i + 1

\* the least path no existing temporary file has (NamedTemporaryFile picks an unused name)
NewTmpPath == CHOOSE p \in 1..(Cardinality(tmp_files) + 1) : p \notin tmp_files

\* what may happen to one uploaded file: the write of line 47 raises; the
\* read of lines 52-53 raises; or both succeed and the model is called.  The
\* unlink of line 65 may raise whenever it is reached.
FileOutcomes ==
    {[io |-> "write_error", model |-> NoModelCall, unlink_ok |-> TRUE]}
    \cup {[io |-> "read_error", model |-> NoModelCall, unlink_ok |-> b] : b \in BOOLEAN}
    \cup {[io |-> "ok", model |-> m, unlink_ok |-> b] : m \in ModelOutcomes, b \in BOOLEAN}

\* the events and the entry of one uploaded file, lines 42-67 and 92-94
FileSourceEvents(source, s, path, o) ==
    <<Ev("tmp_create", s, path)>>
    \o (IF o.io = "write_error" THEN <<Ev("tmp_write_error", s, path)>>
        ELSE (IF o.io = "read_error" THEN <<Ev("tmp_read_error", s, path)>>
              ELSE <<Ev("generate_content", s,
                        [data |-> source.data,
                         prompt |-> build_prompt(call.prompt_text, call.chat_history)]),
                     IF o.model.raised THEN Ev("model_error", s, << >>)
                                       ELSE Ev("reply", s, o.model.text)>>)
             \o <<IF o.unlink_ok THEN Ev("unlink", s, path) ELSE Ev("unlink_error", s, path)>>)

\* one iteration of the loop of line 40 for source_type == 'file'
ProcessFileSource ==
    /\ pc = "files" /\ idx <= Len(call.file_docs)
    /\ \E o \in FileOutcomes :
        LET source == call.file_docs[idx]
            tmp_file_path == NewTmpPath
            response_text == IF o.io = "ok" THEN process_pdf_data(o.model) ELSE None
        IN /\ events' = events \o FileSourceEvents(source, Src("file", idx), tmp_file_path, o)
           /\ tmp_files' = IF o.io # "write_error" /\ o.unlink_ok
                             THEN tmp_files \ {tmp_file_path}
                             ELSE tmp_files \cup {tmp_file_path}
           /\ responses' = IF Truthy(response_text)
                             THEN Append(responses, [filename |-> source.name,
                                                     response |-> response_text.val])
                             ELSE responses
           /\ idx' = after_source(idx, Len(call.file_docs), o.io # "ok")
    /\ UNCHANGED <<session_vars, pc, call, valid_urls, all_responses, result>>

\* the filter of line 167
filter_urls(urls) ==
    LET kept == SelectSeq(urls, LAMBDA url : strip(url) # << >> /\ is_valid_url(strip(url)))
    IN [k \in 1..Len(kept) |-> strip(kept[k])]

\* the end of the file loop (lines 96, 161-162) and the URL filter (lines 165-168)
FilesDone ==
    /\ pc = "files" /\ idx > Len(call.file_docs)
    /\ all_responses' = all_responses \o responses
    /\ responses' = << >>
    /\ valid_urls' = filter_urls(call.url_docs)
    /\ pc' = "urls" /\ idx' = 1
    /\ UNCHANGED <<session_vars, call, result, tmp_files, events>>

HttpStatuses == {200, 204, 404}

\* response.raise_for_status() does not raise
is_success(status) == status \div 100 = 2

\* what may happen to one URL: httpx.get raises (transport error), or it
\* returns the final response of the redirect chain with some status, and
\* the model is called when lines 75-77 let it
UrlOutcomes ==
    {[transport_error |-> TRUE, status |-> 0, model |-> NoModelCall]}
    \cup {[transport_error |-> FALSE, status |-> s, model |-> m] :
              s \in HttpStatuses, m \in ModelOutcomes}

forwards_body_any_2xx(o) == ~o.transport_error /\ is_success(o.status)

\* lines 74-77: the body is forwarded to process_pdf_data
forwards_body(o) == ~o.transport_error /\ is_success(o.status) /\ o.status = 200

\* lines 78-79
url_filename(source) == <<"PDF_from_">> \o urlparse(source).netloc \o <<".pdf">>

FailedUrlMsg(source) == <<"Failed to process PDF from URL: ">> \o source

UrlSourceEvents_retry(source, s, o) ==
    (IF o.transport_error THEN <<Ev("http_get", s, source), Ev("http_error", s, 0)>> ELSE << >>)
    \o <<Ev("http_get", s, source)>>
    \o (IF o.transport_error THEN <<Ev("http_error", s, 0)>>
        ELSE <<Ev("http_status", s, o.status)>>)
    \o (IF forwards_body(o)
        THEN <<Ev("generate_content", s,
                  [data |-> <<"body of ">> \o source,
                   prompt |-> build_prompt(call.prompt_text, call.chat_history)]),
               IF o.model.raised THEN Ev("model_error", s, << >>)
                                 ELSE Ev("reply", s, o.model.text)>>
        ELSE << >>)
    \o (IF o.transport_error \/ ~is_success(o.status)
        THEN <<Ev("st_error", s, FailedUrlMsg(source))>>
        ELSE << >>)

\* the events of one URL source, lines 72-90
UrlSourceEvents(source, s, o) ==
    <<Ev("http_get", s, source)>>
    \o (IF o.transport_error THEN <<Ev("http_error", s, 0)>>
        ELSE <<Ev("http_status", s, o.status)>>)
    \o (IF forwards_body(o)
        THEN <<Ev("generate_content", s,
                  [data |-> <<"body of ">> \o source,
                   prompt |-> build_prompt(call.prompt_text, call.chat_history)]),
               IF o.model.raised THEN Ev("model_error", s, << >>)
                                 ELSE Ev("reply", s, o.model.text)>>
        ELSE << >>)
    \o (IF o.transport_error \/ ~is_success(o.status)
        THEN <<Ev("st_error", s, FailedUrlMsg(source))>>
        ELSE << >>)

\* one iteration of the loop of line 40 for source_type == 'url', lines 69-90
ProcessUrlSource ==
    /\ pc = "urls" /\ idx <= Len(valid_urls)
    /\ \E o \in UrlOutcomes :
        /\ (~forwards_body(o)) => o.model = NoModelCall
        /\ LET source == valid_urls[idx]
               response_text == IF forwards_body(o) THEN process_pdf_data(o.model) ELSE None
           IN /\ events' = events \o UrlSourceEvents(source, Src("url", idx), o)
              /\ responses' = IF Truthy(response_text)
                                THEN Append(responses, [filename |-> url_filename(source),
                                                        response |-> response_text.val])
                                ELSE responses
              \* the handler of lines 88-90 swallows the exception of a failed GET
              /\ idx' = after_source(idx, Len(valid_urls), FALSE)
    /\ UNCHANGED <<session_vars, pc, call, valid_urls, all_responses, result, tmp_files>>

Separator == "\n\n---\n\n"

\* line 184
format_response(resp) == <<"**">> \o resp.filename \o <<"**", NL>> \o resp.response

format_all_reversed(all) ==
    IF all = << >> THEN <<NoDocsMsg>>
    ELSE join(<<Separator>>, [k \in 1..Len(all) |-> format_response(all[Len(all) + 1 - k])])

format_all_no_sentinel(all) == join(<<Separator>>, [k \in 1..Len(all) |-> format_response(all[k])])

\* lines 178-186
format_all(all) ==
    IF all = << >> THEN <<NoDocsMsg>>
    ELSE join(<<Separator>>, [k \in 1..Len(all) |-> format_response(all[k])])

\* the end of the URL loop (lines 96, 175-176) and the rendering, lines 178-186
UrlsDone ==
    /\ pc = "urls" /\ idx > Len(valid_urls)
    /\ all_responses' = all_responses \o responses
    /\ responses' = << >>
    /\ result' = Some(format_all(all_responses \o responses))
    /\ pc' = "returned" /\ idx' = 0
    /\ UNCHANGED <<session_vars, call, valid_urls, tmp_files, events>>

Pipeline == ProcessFileSource \/ FilesDone \/ ProcessUrlSource \/ UrlsDone

----------------------------------------------------------------------------
(* A caller of user_input with arbitrary arguments *)

Questions == { << >>, <<WS, WS>>, <<"Q1">> }

Turn(q, a) == [question |-> q, answer |-> a, is_json_summary |-> FALSE]

CallerHistories ==
    { << >>,
      <<Turn(<<"Q0">>, <<"A0">>), Turn(<<"Q1">>, <<"Procesando...">>)>> }

CallUserInput ==
    /\ pc = "idle"
    /\ \E q \in Questions, files \in SeqUpTo(UploadedFiles, MaxSources), h \in CallerHistories :
         \E urls \in SeqUpTo(UrlStrings, MaxSources - Len(files)) :
            user_input("user_input", q, files, urls, h)
    /\ UNCHANGED <<session_vars, tmp_files>>

CallGetGeminiResponse ==
    /\ pc = "idle"
    /\ \E q \in Questions, files \in SeqUpTo(UploadedFiles, MaxSources), h \in CallerHistories :
         \E urls \in SeqUpTo(UrlStrings, MaxSources - Len(files)) :
            get_gemini_response("get_gemini_response", q, files, urls, h)
    /\ UNCHANGED <<session_vars, tmp_files>>

Next ==
    CallUserInput \/ CallGetGeminiResponse \/ ProcessFileSource \/ FilesDone \/ ProcessUrlSource \/ UrlsDone

Spec == Init /\ [][Next]_vars

----------------------------------------------------------------------------
(* process_pdf_data called on its own with arbitrary arguments *)

PromptTurns ==
    { Turn(q, a) : q \in {<<"Q1">>, <<"Q2">>},
                   a \in {<<"A1">>, <<"**", "x.pdf", "**", NL, "R1">>} }

InitPrompt ==
    /\ chat_history = << >>
    /\ file_docs = << >>
    /\ url_docs = << >>
    /\ show_main_app = FALSE
    /\ auto_run_complete = FALSE
    /\ json_summary_data = NoJson
    /\ predefined_question_trigger = << >>
    /\ rendered = << >>
    /\ pc = "idle"
    /\ \E q \in {<<"Q1">>, <<"Q3">>}, h \in SeqUpTo(PromptTurns, MaxHist) :
          call = [caller |-> "process_pdf_data", prompt_text |-> q, file_docs |-> << >>,
                  url_docs |-> << >>, chat_history |-> h]
    /\ idx = 0
    /\ valid_urls = << >>
    /\ responses = << >>
    /\ all_responses = << >>
    /\ result = None
    /\ tmp_files = {}
    /\ events = << >>

\* process_pdf_data, lines 103-140, for one outcome of the model call
ProcessPdfData ==
    /\ pc = "idle" /\ call.caller = "process_pdf_data"
    /\ \E m \in ModelOutcomes :
          /\ events' = <<Ev("generate_content", Src("none", 0),
                            [data |-> "%PDF-x",
                             prompt |-> build_prompt(call.prompt_text, call.chat_history)]),
                         IF m.raised THEN Ev("model_error", Src("none", 0), << >>)
                                     ELSE Ev("reply", Src("none", 0), m.text)>>
          /\ result' = process_pdf_data(m)
    /\ pc' = "returned"
    /\ UNCHANGED <<session_vars, call, idx, valid_urls, responses, all_responses, tmp_files>>

NextPrompt == ProcessPdfData

SpecPrompt == InitPrompt /\ [][NextPrompt]_vars

----------------------------------------------------------------------------
(* JSON Extractor: extract_json_from_markdown, lines 340-353 *)

\* a JSON document that json.loads turns into None
NullDoc == "null"

\* a JSON document of brackets nested deeper than the recursion limit of the
\* interpreter: json.loads raises RecursionError
DeepDoc == "[[[[ ... nested beyond the recursion limit"

\* a JSON number of more digits than the interpreter converts to an int
\* (4300): json.loads raises ValueError, which is not a JSONDecodeError
HugeIntDoc == "1111 ... more than 4300 digits"

\* json.loads of the JSON documents of the model
JsonValue ==
    [t \in {JsonDoc, NullDoc} |->
        IF t = JsonDoc THEN [is_none |-> FALSE, val |-> [porcentaje_recomendacion |-> "80%"]]
        ELSE NoJson]

\* the documents on which json.loads raises another exception than JSONDecodeError
JsonRaises == [t \in {DeepDoc, HugeIntDoc} |->
                  IF t = DeepDoc THEN "RecursionError" ELSE "ValueError"]

\* json.loads(text): white space is skipped, the first value is decoded, and
\* anything but white space after it is an error ('Extra data')
json_loads(text) ==
    LET body == lstrip(text)
    IN IF body # << >> /\ body[1] \in DOMAIN JsonRaises
       THEN [raised |-> JsonRaises[body[1]], value |-> NoJson]
       ELSE IF Len(strip(text)) = 1 /\ strip(text)[1] \in DOMAIN JsonValue
       THEN [raised |-> "none", value |-> JsonValue[strip(text)[1]]]
       ELSE [raised |-> "JSONDecodeError", value |-> NoJson]

\* line 351: the exceptions the function turns into None
CaughtErrors == {"JSONDecodeError", "AttributeError"}

\* re.search(r'(fence)json\n(.*?)\n(fence)', text, re.DOTALL), line 344: the
\* leftmost opening fence that has a closing fence after it, up to the first
\* such closing fence; the value is the positions of the two fences
json_match(text) ==
    LET opens == {i \in 1..Len(text) : text[i] = FenceOpen
                     /\ \E j \in (i + 1)..Len(text) : text[j] = FenceClose}
    IN IF opens = {} THEN [found |-> FALSE, open |-> 0, close |-> 0]
       ELSE LET i == CHOOSE o \in opens : \A o2 \in opens : o <= o2
                j == CHOOSE c \in (i + 1)..Len(text) :
                        /\ text[c] = FenceClose
                        /\ \A c2 \in (i + 1)..(c - 1) : text[c2] # FenceClose
            IN [found |-> TRUE, open |-> i, close |-> j]

\* lines 340-353: the value returned, or the exception that leaves the function
extract_json_from_markdown(text) ==
    LET m      == json_match(text)
        parsed == IF m.found THEN json_loads(SubSeq(text, m.open + 1, m.close - 1))
                             ELSE json_loads(text)
    IN IF parsed.raised \in CaughtErrors
       THEN [raised |-> "none", value |-> NoJson]
       ELSE parsed

\* extract_json_from_markdown called on its own with arbitrary texts

\* the longest text, in tokens
MaxJsonLen == 3

JsonTokens == {FenceOpen, FenceClose, JsonDoc, NullDoc, DeepDoc, HugeIntDoc, "R1", WS}

InitJson ==
    /\ chat_history = << >>
    /\ file_docs = << >>
    /\ url_docs = << >>
    /\ show_main_app = FALSE
    /\ auto_run_complete = FALSE
    /\ json_summary_data = NoJson
    /\ predefined_question_trigger = << >>
    /\ rendered = << >>
    /\ pc = "idle"
    /\ \E text \in SeqUpTo(JsonTokens, MaxJsonLen) :
          call = [caller |-> "extract_json_from_markdown", prompt_text |-> text,
                  file_docs |-> << >>, url_docs |-> << >>, chat_history |-> << >>]
    /\ idx = 0
    /\ valid_urls = << >>
    /\ responses = << >>
    /\ all_responses = << >>
    /\ result = None
    /\ tmp_files = {}
    /\ events = << >>

\* one call of extract_json_from_markdown(text), lines 340-353: it returns a
\* value or an exception leaves it
ExtractJson ==
    /\ pc = "idle" /\ call.caller = "extract_json_from_markdown"
    /\ result' = extract_json_from_markdown(call.prompt_text)
    /\ pc' = IF result'.raised = "none" THEN "returned" ELSE "raised"
    /\ UNCHANGED <<session_vars, call, idx, valid_urls, responses, all_responses,
                   tmp_files, events>>

NextJson == ExtractJson

SpecJson == InitJson /\ [][NextJson]_vars

----------------------------------------------------------------------------
(* Session Controller: main, show_landing_page, show_main_app *)

\* A script run is one execution of main(), started by one widget event or
\* by st.rerun(); it is not interrupted.  pc = "idle": the script waits for
\* the user; pc = "rerun": st.rerun() was called and the next run has no
\* widget event.

JsonQuestionKey == "Resumen de licitación (JSON)"

\* the entries of PREDEFINED_QUESTIONS (lines 210-223) the user of the model picks
PREDEFINED_QUESTIONS ==
    [k \in {"", "Resumen del documento", JsonQuestionKey} |->
        IF k = "" THEN << >>
        ELSE IF k = "Resumen del documento"
        THEN <<"Por favor, proporciona un resumen detallado de los puntos clave de este documento ...">>
        ELSE <<"Analiza este documento de licitación y devuelve un JSON con la siguiente estructura en formato Markdown ...">>]

\* line 226
QUESTION_OPTIONS == DOMAIN PREDEFINED_QUESTIONS

\* the texts the user types into st.chat_input
ChatTexts == { <<"Q1">>, <<WS, WS>> }

PlaceholderChat == "Procesando..."

PlaceholderSummary == "Procesando resumen de licitación..."

NoSummaryMsg == "No se pudo generar el resumen de la licitación"

NoAnswerMsg == "No se generó ninguna respuesta"

\* line 649: the slice keeps the last 10 turns
HistoryWindow == 10

LastN_all(s, n) == s

\* s[-n:]
LastN(s, n) == IF Len(s) <= n THEN s ELSE SubSeq(s, Len(s) - n + 1, Len(s))

\* text.split('\n')
RECURSIVE split_lines(_)
split_lines(text) ==
    IF \A k \in 1..Len(text) : text[k] # NL THEN <<text>>
    ELSE LET k == CHOOSE n \in 1..Len(text) : text[n] = NL /\ \A m \in 1..(n - 1) : text[m] # NL
         IN <<SubSeq(text, 1, k - 1)>> \o split_lines(SubSeq(text, k + 1, Len(text)))

\* lines 297-298
landing_urls(url_input) ==
    LET lines   == split_lines(url_input)
        nonempty == SelectSeq(lines, LAMBDA l : strip(l) # << >>)
        urls    == [k \in 1..Len(nonempty) |-> strip(nonempty[k])]
    IN SelectSeq(urls, is_valid_url)

\* the display loop of show_main_app, lines 544-569: the messages it renders
display_history(history) ==
    LET shown == SelectSeq(history, LAMBDA chat : ~chat.is_json_summary)
    IN [k \in 1..Len(shown) |-> shown[k].answer]

\* line 510
docs_available == file_docs # << >> \/ url_docs # << >>

update_last_wrong_placeholder(history, placeholder, response, fallback) ==
    IF history # << >> /\ history[Len(history)].answer = <<"Procesando">>
    THEN [history EXCEPT ![Len(history)].answer =
              IF Truthy(response) THEN response.val ELSE <<fallback>>]
    ELSE history

\* lines 528-529 and 653-654: the placeholder answer of the last turn is
\* replaced by the response, or by the fallback text when the response is falsy
update_last(history, placeholder, response, fallback) ==
    IF history # << >> /\ history[Len(history)].answer = <<placeholder>>
    THEN [history EXCEPT ![Len(history)].answer =
              IF Truthy(response) THEN response.val ELSE <<fallback>>]
    ELSE history

\* what the user may have entered on the landing page when pressing the
\* button: the uploaded files and the contents of the text area of URLs
LandingInputs ==
    { [uploaded_files |-> << >>, url_input |-> <<WS>>],
      [uploaded_files |-> <<[name |-> <<"x.pdf">>, data |-> "%PDF-x"]>>, url_input |-> << >>],
      [uploaded_files |-> << >>,
       url_input |-> <<"https:", "//", "a.com", "/x.pdf", NL, WS, "a.com", "/x.pdf">>],
      [uploaded_files |-> << >>, url_input |-> <<"a.com", "/x.pdf">>],
      [uploaded_files |-> <<[name |-> <<"y.pdf">>, data |-> "%PDF-y"]>>,
       url_input |-> <<WS, "https:", "//", "b.org", ":8080", WS, NL>>] }

\* show_landing_page with the button 'Comenzar Análisis' pressed, lines 292-304
LandingStart ==
    /\ pc = "idle" /\ ~show_main_app
    /\ \E in \in LandingInputs :
          IF in.uploaded_files = << >> /\ strip(in.url_input) = << >>
          THEN UNCHANGED <<file_docs, url_docs, show_main_app, pc>>
          ELSE /\ file_docs' = in.uploaded_files
               /\ url_docs' = landing_urls(in.url_input)
               /\ show_main_app' = TRUE
               /\ pc' = "rerun"
    /\ UNCHANGED <<chat_history, auto_run_complete, json_summary_data,
                   predefined_question_trigger, rendered, call, idx, valid_urls,
                   responses, all_responses, result, tmp_files, events>>

\* a run of main() that shows the landing page and has no button pressed,
\* lines 586-588
LandingRerun ==
    /\ pc = "rerun" /\ ~show_main_app
    /\ pc' = "idle"
    /\ UNCHANGED <<session_vars, call, idx, valid_urls, responses, all_responses, result,
                   tmp_files, events>>

\* a turn of the chat that was asked and answered earlier in the session
EarlierTurn ==
    [question |-> <<"Q0">>, answer |-> <<"**", "x.pdf", "**", NL, "R1">>,
     is_json_summary |-> FALSE]

\* the turns of the history that the session of the model asked itself; at
\* most MaxTurns of them are asked
Asked(history) == Len(SelectSeq(history, LAMBDA chat : chat # EarlierTurn))

\* show_main_app decides to auto-run the summary, line 511
AutoRunDue == ~auto_run_complete /\ docs_available

\* a run of main() in which show_main_app auto-runs the JSON summary,
\* lines 511-527; the run goes on in the pipeline and ends in AutoRunFinish
MainAppAutoRun ==
    /\ pc \in {"idle", "rerun"} /\ show_main_app
    /\ AutoRunDue
    /\ Asked(chat_history) < MaxTurns
    /\ auto_run_complete' = TRUE
    /\ chat_history' = Append(chat_history,
                              [question |-> PREDEFINED_QUESTIONS[JsonQuestionKey],
                               answer |-> <<PlaceholderSummary>>,
                               is_json_summary |-> TRUE])
    /\ user_input("auto", PREDEFINED_QUESTIONS[JsonQuestionKey], file_docs, url_docs,
                  chat_history')
    /\ UNCHANGED <<file_docs, url_docs, show_main_app, json_summary_data,
                   predefined_question_trigger, rendered, tmp_files>>

\* st.rerun() at the end of a request, lines 533 and 657: the frames of
\* user_input are gone and the script runs again
end_of_request ==
    /\ pc' = "rerun"
    /\ call' = NoCall /\ idx' = 0 /\ valid_urls' = << >> /\ responses' = << >>
    /\ all_responses' = << >> /\ result' = None /\ events' = << >>

\* lines 659-661: an exception is caught at the end of main() and the script
\* run ends without st.rerun()
script_error ==
    /\ pc' = "idle"
    /\ call' = NoCall /\ idx' = 0 /\ valid_urls' = << >> /\ responses' = << >>
    /\ all_responses' = << >> /\ result' = None /\ events' = << >>

\* lines 528-533
AutoRunFinish ==
    /\ pc = "returned" /\ call.caller = "auto"
    /\ chat_history' = update_last(chat_history, PlaceholderSummary, result, NoSummaryMsg)
    /\ LET extracts  == /\ chat_history # << >>
                        /\ chat_history[Len(chat_history)].answer = <<PlaceholderSummary>>
                        /\ Truthy(result)
           extracted == extract_json_from_markdown(result.val)
       IN IF extracts /\ extracted.raised # "none"
          THEN UNCHANGED json_summary_data /\ script_error
          ELSE /\ json_summary_data' = IF extracts THEN extracted.value ELSE json_summary_data
               /\ end_of_request
    /\ UNCHANGED <<file_docs, url_docs, show_main_app, auto_run_complete,
                   predefined_question_trigger, rendered, tmp_files>>

\* lines 637-650: the question is appended with the placeholder answer and
\* user_input is called with the last HistoryWindow turns
ask(user_question) ==
    /\ Asked(chat_history) < MaxTurns
    /\ chat_history' = Append(chat_history,
                              [question |-> user_question, answer |-> <<PlaceholderChat>>,
                               is_json_summary |-> FALSE])
    /\ user_input("chat", user_question, file_docs, url_docs,
                  LastN(chat_history', HistoryWindow))

\* a run of main() on the main page without a widget event, lines 591-657;
\* a trigger left in the session state is taken as the question, lines 632-635
MainAppRerun ==
    /\ pc \in {"idle", "rerun"} /\ show_main_app
    /\ ~AutoRunDue
    /\ rendered' = display_history(chat_history)
    /\ predefined_question_trigger' = << >>
    /\ IF predefined_question_trigger # << >> /\ docs_available
         THEN ask(predefined_question_trigger)
         ELSE /\ pc' = "idle"
              /\ UNCHANGED <<chat_history, call, idx, valid_urls, responses, all_responses,
                             result, events>>
    /\ UNCHANGED <<file_docs, url_docs, show_main_app, auto_run_complete, json_summary_data,
                   tmp_files>>

BackToLanding_resets ==
    /\ pc = "idle" /\ show_main_app
    /\ ~AutoRunDue
    /\ rendered' = display_history(chat_history)
    /\ show_main_app' = FALSE
    /\ auto_run_complete' = FALSE
    /\ pc' = "rerun"
    /\ UNCHANGED <<chat_history, file_docs, url_docs, json_summary_data,
                   predefined_question_trigger, call, idx, valid_urls, responses,
                   all_responses, result, tmp_files, events>>

\* a run of main() with the button 'Cargar nuevos documentos' pressed, lines 607-609
BackToLanding ==
    /\ pc = "idle" /\ show_main_app
    /\ ~AutoRunDue
    /\ rendered' = display_history(chat_history)
    /\ show_main_app' = FALSE
    /\ pc' = "rerun"
    /\ UNCHANGED <<chat_history, file_docs, url_docs, auto_run_complete, json_summary_data,
                   predefined_question_trigger, call, idx, valid_urls, responses,
                   all_responses, result, tmp_files, events>>

AskPredefined_keeps_trigger ==
    /\ pc = "idle" /\ show_main_app
    /\ ~AutoRunDue
    /\ rendered' = display_history(chat_history)
    /\ \E selected_question_key \in QUESTION_OPTIONS :
          LET trigger == IF selected_question_key # ""
                         THEN PREDEFINED_QUESTIONS[selected_question_key]
                         ELSE predefined_question_trigger
          IN /\ predefined_question_trigger' = trigger
             /\ IF trigger # << >> /\ docs_available
                  THEN ask(trigger)
                  ELSE UNCHANGED <<chat_history, frame_vars, events>>
    /\ UNCHANGED <<file_docs, url_docs, show_main_app, auto_run_complete, json_summary_data,
                   tmp_files>>

\* a run of main() with the button 'Hacer Pregunta Seleccionada' pressed
\* for the selected key, lines 624-650
AskPredefined ==
    /\ pc = "idle" /\ show_main_app
    /\ ~AutoRunDue
    /\ rendered' = display_history(chat_history)
    /\ \E selected_question_key \in QUESTION_OPTIONS :
          LET trigger == IF selected_question_key # ""
                         THEN PREDEFINED_QUESTIONS[selected_question_key]
                         ELSE predefined_question_trigger
          IN \* lines 632-635: the trigger becomes the question and is cleared
             /\ predefined_question_trigger' = << >>
             /\ IF trigger # << >> /\ docs_available
                  THEN ask(trigger)
                  ELSE UNCHANGED <<chat_history, frame_vars, events>>
    /\ UNCHANGED <<file_docs, url_docs, show_main_app, auto_run_complete, json_summary_data,
                   tmp_files>>

\* a run of main() with a text submitted in st.chat_input, lines 629-650
ChatInput ==
    /\ pc = "idle" /\ show_main_app
    /\ ~AutoRunDue
    /\ rendered' = display_history(chat_history)
    /\ \E user_question \in ChatTexts :
          IF docs_available
          THEN ask(user_question)
          ELSE UNCHANGED <<chat_history, frame_vars, events>>
    /\ UNCHANGED <<file_docs, url_docs, show_main_app, auto_run_complete, json_summary_data,
                   predefined_question_trigger, tmp_files>>

ChatFinish_extracts ==
    /\ pc = "returned" /\ call.caller = "chat"
    /\ chat_history' = update_last(chat_history, PlaceholderChat, result, NoAnswerMsg)
    /\ json_summary_data' = IF Truthy(result)
                            THEN extract_json_from_markdown(result.val).value
                            ELSE json_summary_data
    /\ end_of_request
    /\ UNCHANGED <<file_docs, url_docs, show_main_app, auto_run_complete,
                   predefined_question_trigger, rendered, tmp_files>>

\* lines 652-657
ChatFinish ==
    /\ pc = "returned" /\ call.caller = "chat"
    /\ chat_history' = update_last(chat_history, PlaceholderChat, result, NoAnswerMsg)
    /\ end_of_request
    /\ UNCHANGED <<file_docs, url_docs, show_main_app, auto_run_complete, json_summary_data,
                   predefined_question_trigger, rendered, tmp_files>>

NextSession ==
    \/ LandingStart \/ LandingRerun \/ MainAppAutoRun \/ AutoRunFinish \/ MainAppRerun
    \/ BackToLanding \/ AskPredefined \/ ChatInput \/ ChatFinish
    \/ ProcessFileSource \/ FilesDone \/ ProcessUrlSource \/ UrlsDone

SpecSession == Init /\ [][NextSession]_vars

\* A session that is already long: the summary was made of one uploaded
\* file and HistoryWindow - 1 questions were asked and answered since, so
\* that the next question is the first whose history exceeds the window
SummaryAnswer ==
    format_all(<<[filename |-> <<"x.pdf">>, response |-> <<FenceOpen, JsonDoc, FenceClose>>]>>)

LongHistory ==
    <<[question |-> PREDEFINED_QUESTIONS[JsonQuestionKey], answer |-> SummaryAnswer,
       is_json_summary |-> TRUE]>>
    \o [k \in 1..(HistoryWindow - 1) |-> EarlierTurn]

InitLong ==
    /\ chat_history \in {<< >>, LongHistory}
    /\ file_docs = IF chat_history = << >> THEN << >>
                   ELSE <<[name |-> <<"x.pdf">>, data |-> "%PDF-x"]>>
    /\ url_docs = << >>
    /\ show_main_app = (chat_history # << >>)
    /\ auto_run_complete = (chat_history # << >>)
    /\ json_summary_data = IF chat_history = << >> THEN NoJson
                           ELSE extract_json_from_markdown(SummaryAnswer).value
    /\ predefined_question_trigger = << >>
    /\ rendered = display_history(chat_history)
    /\ pc = "idle"
    /\ call = NoCall
    /\ idx = 0
    /\ valid_urls = << >>
    /\ responses = << >>
    /\ all_responses = << >>
    /\ result = None
    /\ tmp_files = {}
    /\ events = << >>

SpecLong == InitLong /\ [][NextSession]_vars

----------------------------------------------------------------------------
(* Properties of the pipeline, checked under Spec *)

Returned == pc = "returned"

\* get_gemini_response was entered by the running request
Invoked == events # << >> /\ events[1].op = "get_gemini_response"

EventsAt(op, s) == SelectSeq(events, LAMBDA e : e.op = op /\ e.src = s)

Count(op, s) == Len(EventsAt(op, s))

Processed(s) == \E k \in 1..Len(events) : events[k].src = s

HasReply(s) ==
    \E k \in 1..Len(events) :
        events[k].op = "reply" /\ events[k].src = s /\ events[k].val # << >>

ReplyOf(s) == EventsAt("reply", s)[1].val

\* the sources the loops have gone past
FilesPast ==
    IF ~Invoked THEN 0
    ELSE IF pc = "files" THEN idx - 1
    ELSE IF pc \in {"urls", "returned"} THEN Len(call.file_docs)
    ELSE 0

UrlsPast ==
    IF ~Invoked THEN 0
    ELSE IF pc = "urls" THEN idx - 1
    ELSE IF pc = "returned" THEN Len(valid_urls)
    ELSE 0

\* the indices, in list order, of the sources whose model reply was not empty
Replied(type, n) == SelectSeq([i \in 1..n |-> i], LAMBDA i : HasReply(Src(type, i)))

NameOf(s) ==
    IF s.type = "file" THEN call.file_docs[s.idx].name
    ELSE <<"PDF_from_">> \o urlparse(valid_urls[s.idx]).netloc \o <<".pdf">>

RepliedSources ==
    [k \in 1..Len(Replied("file", FilesPast)) |-> Src("file", Replied("file", FilesPast)[k])]
    \o [k \in 1..Len(Replied("url", UrlsPast)) |-> Src("url", Replied("url", UrlsPast)[k])]

\* the entries collected so far
Entries == all_responses \o responses

\* C1: a failing source (exception, fetch error, model exception, empty
\* reply) does not stop the batch: every source the loop has gone past was
\* processed, sources after a failing one included, the request ends with a
\* value, and the entries are those of exactly the sources whose model reply
\* was not empty; a failed source has no entry.
C1_FailuresAreSkipped ==
    Invoked =>
        /\ \A i \in 1..FilesPast : Processed(Src("file", i))
        /\ \A i \in 1..UrlsPast : Processed(Src("url", i))
        /\ pc = "files" => idx <= Len(call.file_docs) + 1
        /\ pc = "urls" => idx <= Len(valid_urls) + 1
        /\ Len(Entries) = Len(RepliedSources)
        /\ \A k \in 1..Len(Entries) :
              /\ Entries[k].filename = NameOf(RepliedSources[k])
              /\ Entries[k].response = ReplyOf(RepliedSources[k])
        /\ Returned => ~result.is_none

C1_Witness ==
    /\ Returned /\ Invoked
    /\ Count("tmp_write_error", Src("file", 1)) = 1
    /\ Count("http_get", Src("url", 1)) = 1
    /\ HasReply(Src("url", 1))
    /\ Len(all_responses) = 1

\* C2: once the processing of an uploaded file has ended, the temporary file
\* created for it is gone, unless its deletion failed: a step of the file
\* loop that does not end in a failed unlink leaves no new temporary file.
C2_TempFileRemoved ==
    [][(pc = "files" /\ idx' # idx /\ events'[Len(events')].op # "unlink_error")
          => tmp_files' \subseteq tmp_files]_vars

\* C3: get_gemini_response returns the sentinel exactly when no source
\* yielded a non-empty model reply; it never returns None or "".
C3_Sentinel ==
    (Returned /\ Invoked) =>
        /\ ~result.is_none
        /\ result.val # << >>
        /\ (result.val = <<NoDocsMsg>>) <=> (RepliedSources = << >>)

C3_Witness ==
    /\ Returned /\ Invoked
    /\ call.url_docs # << >> /\ valid_urls = << >> /\ call.file_docs # << >>
    /\ result.val = <<NoDocsMsg>>

\* the text of the entries of the sources srcs, in that order
RECURSIVE Rendering(_)
Rendering(srcs) ==
    IF srcs = << >> THEN << >>
    ELSE <<"**">> \o NameOf(Head(srcs)) \o <<"**", "\n">> \o ReplyOf(Head(srcs))
         \o (IF Len(srcs) > 1 THEN <<"\n\n---\n\n">> ELSE << >>)
         \o Rendering(Tail(srcs))

\* C4: when some source yields a reply, the returned string is the entries
\* '**{filename}**\n{response}' of the successful sources, joined by
\* '\n\n---\n\n', uploaded files in list order first, then URLs in list order.
C4_RenderingInSourceOrder ==
    (Returned /\ Invoked /\ RepliedSources # << >>) =>
        result = Some(Rendering(RepliedSources))

C4_Witness ==
    /\ Returned /\ Invoked
    /\ Len(RepliedSources) = 2
    /\ RepliedSources[1].type = "file" /\ RepliedSources[2].type = "url"
    /\ ReplyOf(RepliedSources[1]) # ReplyOf(RepliedSources[2])

\* C8 as stated: every uploaded file causes exactly one model request, every
\* valid URL exactly one GET and, when the GET succeeds, one model request
C8_ExactlyOneRequest ==
    (Returned /\ Invoked) =>
        /\ \A i \in 1..Len(call.file_docs) : Count("generate_content", Src("file", i)) = 1
        /\ \A i \in 1..Len(valid_urls) :
              /\ Count("http_get", Src("url", i)) = 1
              /\ (Count("http_status", Src("url", i)) = 1
                    /\ is_success(EventsAt("http_status", Src("url", i))[1].val))
                 => Count("generate_content", Src("url", i)) = 1

\* C8 (amended): no source is processed twice and nothing is retried: an
\* uploaded file causes at most one model request, and exactly one when its
\* temporary file was written and read back; a valid URL causes exactly one
\* GET, and one model request when the GET returned status 200, none
\* otherwise.
C8_NoRetry ==
    /\ \A i \in 1..FilesPast :
          LET s == Src("file", i)
          IN /\ Count("tmp_create", s) = 1
             /\ Count("generate_content", s) =
                   (IF Count("tmp_write_error", s) + Count("tmp_read_error", s) = 0 THEN 1 ELSE 0)
             /\ Count("reply", s) + Count("model_error", s) = Count("generate_content", s)
    /\ \A i \in 1..UrlsPast :
          LET s == Src("url", i)
          IN /\ Count("http_get", s) = 1
             /\ Count("http_status", s) + Count("http_error", s) = 1
             /\ Count("generate_content", s) =
                   (IF Count("http_status", s) = 1 /\ EventsAt("http_status", s)[1].val = 200
                    THEN 1 ELSE 0)
             /\ Count("reply", s) + Count("model_error", s) = Count("generate_content", s)
    /\ \A k \in 1..Len(events) :
          events[k].src.type = "file" => events[k].src.idx <= Len(call.file_docs)
    /\ \A k \in 1..Len(events) :
          events[k].src.type = "url" => events[k].src.idx <= Len(valid_urls)

C8_Witness ==
    /\ Returned /\ Invoked
    /\ Count("model_error", Src("file", 1)) = 1
    /\ Count("http_error", Src("url", 1)) = 1

ExternalCalls ==
    SelectSeq(events, LAMBDA e : e.op \in {"get_gemini_response", "tmp_create", "http_get",
                                           "generate_content"})

BlankQuestion == strip(call.prompt_text) = << >>

NoSources == call.file_docs = << >> /\ call.url_docs = << >>

\* C9 as stated: both input errors return a user-facing text to the caller
C9_InputErrorsReturnText ==
    (Returned /\ call.caller = "user_input" /\ (BlankQuestion \/ NoSources)) =>
        /\ Truthy(result)
        /\ ExternalCalls = << >>

\* C9 (amended): for an empty or whitespace-only question user_input returns
\* the text 'Error: No se pudo procesar la solicitud...'; for a non-blank
\* question with no file and no URL sources it shows 'Por favor, sube un
\* archivo PDF...' with st.error and returns None; in both cases at once and
\* without a pipeline invocation (no temporary file, GET or model request).
C9_InputErrors ==
    (call.caller = "user_input" /\ (BlankQuestion \/ NoSources)) =>
        /\ Returned
        /\ ExternalCalls = << >>
        /\ tmp_files = {}
        /\ BlankQuestion => (result = Some(<<ErrRequestMsg>>) /\ events = << >>)
        /\ ~BlankQuestion =>
              /\ result = None
              /\ events = <<Ev("st_error", Src("none", 0), <<NoSourcesMsg>>)>>

C9_Witness ==
    /\ Returned /\ call.caller = "user_input" /\ ~BlankQuestion /\ NoSources
    /\ result.is_none

\* C10 as stated: any 2xx response is forwarded to the model, and the entry
\* is named after the host component of the URL
C10_Any2xxForwarded ==
    (pc = "urls") =>
        /\ \A i \in 1..UrlsPast :
              LET s == Src("url", i)
              IN (Count("http_status", s) = 1 /\ is_success(EventsAt("http_status", s)[1].val))
                    => Count("generate_content", s) = 1
        /\ \A k \in 1..Len(responses) :
              k <= Len(Replied("url", UrlsPast)) =>
                 responses[k].filename =
                    <<"PDF_from_">> \o urlparse(valid_urls[Replied("url", UrlsPast)[k]]).hostname
                        \o <<".pdf">>

\* C10 (amended): a transport error or a non-2xx status makes the URL source
\* skipped (one GET, an error shown, no model request, no entry) and the loop
\* goes on; a 2xx status other than 200 is skipped silently; only status 200
\* forwards the body to the model and, on a non-empty reply, yields an entry
\* named 'PDF_from_<netloc>.pdf', <netloc> being the network location of the
\* URL (the host and, when given, the port).
C10_UrlSource ==
    (pc = "urls") =>
        /\ \A i \in 1..UrlsPast :
              LET s == Src("url", i)
                  failed == Count("http_error", s) = 1
                               \/ ~is_success(EventsAt("http_status", s)[1].val)
                  ok200  == Count("http_status", s) = 1
                               /\ EventsAt("http_status", s)[1].val = 200
              IN /\ Count("http_get", s) = 1
                 /\ EventsAt("http_get", s)[1].val = valid_urls[i]
                 /\ failed => /\ Count("generate_content", s) = 0
                              /\ ~HasReply(s)
                              /\ Count("st_error", s) = 1
                 /\ (~failed /\ ~ok200) => /\ Count("generate_content", s) = 0
                                           /\ ~HasReply(s)
                                           /\ Count("st_error", s) = 0
                 /\ ok200 => /\ Count("generate_content", s) = 1
                             /\ EventsAt("generate_content", s)[1].val.data
                                   = <<"body of ">> \o valid_urls[i]
        /\ idx <= Len(valid_urls) + 1
        /\ Len(responses) = Len(Replied("url", UrlsPast))
        /\ \A k \in 1..Len(responses) :
              LET i == Replied("url", UrlsPast)[k]
              IN /\ responses[k].filename
                      = <<"PDF_from_">> \o urlparse(valid_urls[i]).netloc \o <<".pdf">>
                 /\ responses[k].response = ReplyOf(Src("url", i))

C10_Witness ==
    /\ pc = "urls" /\ idx = 3
    /\ Count("st_error", Src("url", 1)) = 1
    /\ HasReply(Src("url", 2))
    /\ urlparse(valid_urls[2]).netloc # urlparse(valid_urls[2]).hostname
    /\ Len(responses) = 1

----------------------------------------------------------------------------
(* Properties of the Prompt Builder, checked under SpecPrompt *)

\* the prompt sent by the first model request of the running call
SentPrompt == events[1].val.prompt

PositionsOf(tok, text) == {p \in 1..Len(text) : text[p] = tok}

\* the i-th smallest element of the set P of positions
Nth(P, i) == CHOOSE p \in P : Cardinality({q \in P : q <= p}) = i

Numeral == <<"1", "2", "3", "4", "5", "6", "7", "8", "9">>

\* the text of the pair numbered i for the turn t
PairText(i, t) ==
    <<"\n\nPregunta ", Numeral[i], ": ">> \o t.question
    \o <<"\nRespuesta ", Numeral[i], ": ">> \o t.answer

\* the prompt holds the pair numbered i of turn t at position p
PairAt(text, p, i, t) ==
    /\ p + Len(PairText(i, t)) - 1 <= Len(text)
    /\ SubSeq(text, p, p + Len(PairText(i, t)) - 1) = PairText(i, t)

\* C5: a history of length 0 or 1 gives a prompt without the 'Historial de
\* la conversación' block; a history of length n >= 2 gives one block with
\* exactly n-1 pairs 'Pregunta i / Respuesta i', numbered 1..n-1, holding the
\* first n-1 turns in their order; the last turn is not in it.
C5_Transcript ==
    (pc = "returned" /\ call.caller = "process_pdf_data") =>
        LET h  == call.chat_history
            n  == Len(h)
            P  == PositionsOf("\n\nPregunta ", SentPrompt)
            R  == PositionsOf("\nRespuesta ", SentPrompt)
            H  == PositionsOf(HistorialHeader, SentPrompt)
        IN /\ n <= 1 => (H = {} /\ P = {} /\ R = {})
           /\ n >= 2 =>
                /\ Cardinality(H) = 1
                /\ Cardinality(P) = n - 1
                /\ Cardinality(R) = n - 1
                /\ \A i \in 1..(n - 1) : PairAt(SentPrompt, Nth(P, i), i, h[i])
                /\ \A p \in H : p + 1 = Nth(P, 1)
                /\ \A i \in 1..(n - 2) :
                      Nth(P, i) + Len(PairText(i, h[i])) = Nth(P, i + 1)
           /\ SubSeq(SentPrompt, Len(SentPrompt) - Len(call.prompt_text) - 1, Len(SentPrompt))
                 = <<"\n\n", "Pregunta: ">> \o call.prompt_text

C5_Witness ==
    /\ pc = "returned" /\ call.caller = "process_pdf_data"
    /\ Len(call.chat_history) = 3
    /\ call.chat_history[1] # call.chat_history[2]
    /\ call.chat_history[2].question # call.chat_history[3].question
    /\ Cardinality(PositionsOf("\n\nPregunta ", SentPrompt)) = 2

----------------------------------------------------------------------------
(* Properties of the session controller, checked under SpecSession *)

Placeholders == { <<PlaceholderChat>>, <<PlaceholderSummary>> }

\* a request of the session controller is running
InRequest == call.caller \in {"auto", "chat"} /\ pc \in {"files", "urls", "returned"}

\* the prompts of the model requests of the running request
SentPrompts == {events[k].val.prompt : k \in {n \in 1..Len(events) : events[n].op = "generate_content"}}

HoldsPlaceholder(text) ==
    PositionsOf(PlaceholderChat, text) # {} \/ PositionsOf(PlaceholderSummary, text) # {}

\* C6: in every request of the session controller (auto-run or chat) the
\* turn being answered is the last element of the history passed in, and the
\* transcript of every prompt sent to the model holds the turns before it
\* only: neither the in-flight turn nor a placeholder answer.
C6_InFlightTurnExcluded ==
    InRequest =>
        LET h == call.chat_history
            n == Len(h)
        IN /\ n >= 1
           /\ h[n].question = call.prompt_text
           /\ h[n].answer \in Placeholders
           /\ h[n] = chat_history[Len(chat_history)]
           /\ \A prompt \in SentPrompts :
                 LET P == PositionsOf("\n\nPregunta ", prompt)
                 IN /\ ~HoldsPlaceholder(prompt)
                    /\ Cardinality(P) = n - 1
                    /\ Cardinality(PositionsOf("\nRespuesta ", prompt)) = n - 1
                    /\ \A i \in 1..(n - 1) : PairAt(prompt, Nth(P, i), i, h[i])

C6_Witness ==
    /\ InRequest /\ pc = "returned" /\ call.caller = "chat"
    /\ Len(call.chat_history) = 2
    /\ call.chat_history[1].is_json_summary
    /\ call.chat_history[1].answer # <<NoDocsMsg>>
    /\ SentPrompts # {}

\* the history when no request is running holds no placeholder answer, and
\* neither does anything rendered or sent to the model
C7_NoPlaceholderSeen ==
    /\ pc \in {"idle", "rerun"} =>
          \A i \in 1..Len(chat_history) : chat_history[i].answer \notin Placeholders
    /\ \A i \in 1..Len(rendered) : rendered[i] \notin Placeholders
    /\ \A prompt \in SentPrompts : ~HoldsPlaceholder(prompt)

\* a step appends one turn with a placeholder answer, or replaces the
\* placeholder answer of the last turn at the end of its request, or leaves
\* the history alone
C7_AppendOrAnswer ==
    /\ Len(chat_history') \in {Len(chat_history), Len(chat_history) + 1}
    /\ Len(chat_history') = Len(chat_history) + 1 =>
          chat_history'[Len(chat_history')].answer \in Placeholders
    /\ \A i \in 1..Len(chat_history) :
          \/ chat_history'[i] = chat_history[i]
          \/ /\ i = Len(chat_history) /\ Len(chat_history') = Len(chat_history)
             /\ pc = "returned" /\ pc' = "rerun"
             /\ chat_history[i].answer \in Placeholders
             /\ chat_history'[i].answer \notin Placeholders
             /\ chat_history'[i] = [chat_history[i] EXCEPT !.answer = chat_history'[i].answer]

\* C7: the chat history is append-only and a turn is changed once only, to
\* replace the placeholder answer of the last turn by the final answer; when
\* the handling of a question has ended, whatever the pipeline returned, no
\* turn has a placeholder answer, so neither the display loop nor the
\* transcript of a later question shows one.
C7_PlaceholderReplaced == []C7_NoPlaceholderSeen /\ [][C7_AppendOrAnswer]_vars

C7_Witness ==
    /\ pc = "idle"
    /\ Len(chat_history) = 2
    /\ chat_history[1].answer = <<NoDocsMsg>>
    /\ chat_history[2].answer = <<ErrRequestMsg>>
    /\ rendered = <<<<ErrRequestMsg>>>>

----------------------------------------------------------------------------
(* C11 *)

Extracted == call.caller = "extract_json_from_markdown" /\ pc \in {"returned", "raised"}

\* the interior of the first fenced json block of the text, or the whole
\* text when it holds no such block
ParseTarget(text) ==
    LET m == json_match(text)
    IN IF m.found THEN SubSeq(text, m.open + 1, m.close - 1) ELSE text

\* C11: extract_json_from_markdown(text) returns the JSON parse of the
\* interior of the fenced json block of the text, or of the whole text when
\* there is no such block, and whenever that parse fails it returns None and
\* raises nothing.
C11_ParseOrNone ==
    Extracted =>
        LET parsed == json_loads(ParseTarget(call.prompt_text))
        IN /\ pc = "returned"
           /\ result.raised = "none"
           /\ result.value = IF parsed.raised = "none" THEN parsed.value ELSE NoJson

----------------------------------------------------------------------------
(* C12 *)

\* the request in progress is the structured-summary question of the auto-run
HandlingSummary ==
    call.caller = "auto" /\ call.prompt_text = PREDEFINED_QUESTIONS[JsonQuestionKey]

\* the step that ends the handling of a question of the chat (typed or predefined)
ChatAnswered == pc = "returned" /\ call.caller = "chat" /\ pc' # "returned"

LastTurn(history) == history[Len(history)]

\* C12: json_summary_data is written only by the step that ends the handling
\* of the structured-summary question; the step that ends the handling of
\* any other question leaves json_summary_data unchanged and stores the
\* answer (or the fallback text) as the plain text of the last turn, which
\* is not marked as a JSON summary.
C12_SummaryFrame ==
    [][ /\ json_summary_data' # json_summary_data => HandlingSummary /\ pc = "returned"
        /\ ChatAnswered =>
              /\ json_summary_data' = json_summary_data
              /\ Len(chat_history') = Len(chat_history)
              /\ LastTurn(chat_history') =
                    [question |-> call.prompt_text,
                     answer |-> IF Truthy(result) THEN result.val ELSE <<NoAnswerMsg>>,
                     is_json_summary |-> FALSE] ]_vars

\* a summary was extracted, and a predefined question other than the summary
\* question was answered with a text that holds a json block
C12_Witness ==
    /\ pc = "rerun" /\ Len(chat_history) = 2
    /\ json_summary_data # NoJson
    /\ LastTurn(chat_history).question = PREDEFINED_QUESTIONS["Resumen del documento"]
    /\ ~LastTurn(chat_history).is_json_summary
    /\ json_match(LastTurn(chat_history).answer).found

----------------------------------------------------------------------------
(* C13 *)

\* the URLs of the HTTP GETs of the running request, in the order of the calls
GetUrls ==
    LET gets == SelectSeq(events, LAMBDA e : e.op = "http_get")
    IN [k \in 1..Len(gets) |-> gets[k].val]

HasScheme(url) == urlparse(url).scheme # << >>

HasHost(url) == urlparse(url).hostname # << >>

HasNetloc(url) == urlparse(url).netloc # << >>

\* the request went through get_gemini_response to its end
Completed == Returned /\ Invoked

\* C13 as stated: a GET is issued for a URL string exactly when, trimmed, it
\* is non-empty and has a scheme and a host, and no GET is issued for a
\* string without a scheme or without a host.
C13_GetIffSchemeAndHost ==
    Completed =>
        /\ \A k \in 1..Len(call.url_docs) :
              LET url == strip(call.url_docs[k])
              IN (\E g \in 1..Len(GetUrls) : GetUrls[g] = url)
                    <=> (url # << >> /\ HasScheme(url) /\ HasHost(url))
        /\ \A g \in 1..Len(GetUrls) : HasScheme(GetUrls[g]) /\ HasHost(GetUrls[g])

\* C13, amended: when get_gemini_response runs, the GETs issued are, in list
\* order and one each, those of the trimmed URL strings that are non-empty
\* and have a scheme and a network location (the part between '//' and the
\* path, which may hold a port and no host); no other condition applies,
\* and no GET is issued for a string without a scheme or without a network
\* location.
C13_GetIffSchemeAndNetloc ==
    Completed =>
        LET kept == SelectSeq(call.url_docs,
                              LAMBDA u : strip(u) # << >> /\ HasScheme(strip(u))
                                            /\ HasNetloc(strip(u)))
        IN /\ GetUrls = [k \in 1..Len(kept) |-> strip(kept[k])]
           /\ \A g \in 1..Len(GetUrls) : HasScheme(GetUrls[g]) /\ HasNetloc(GetUrls[g])

\* a request whose two URL strings both got a GET: one without a host, and
\* one entered with white space around it and without a PDF suffix
C13_Witness ==
    /\ Completed /\ Len(call.url_docs) = 2 /\ Len(GetUrls) = 2
    /\ ~HasHost(GetUrls[1])
    /\ call.url_docs[2] # GetUrls[2]
    /\ \A t \in PathTokens : \A k \in 1..Len(GetUrls[2]) : GetUrls[2][k] # t

----------------------------------------------------------------------------
(* C14, checked under SpecLong *)

Min(a, b) == IF a <= b THEN a ELSE b

\* C14: the history a request of the session controller hands to the
\* pipeline is the last turns of the session history and holds at most
\* HistoryWindow of them; the auto-run hands over the whole session history,
\* which then holds the summary turn alone.
C14_ContextWindow ==
    InRequest =>
        LET h == call.chat_history
            n == Len(chat_history)
        IN /\ Len(h) = Min(n, HistoryWindow)
           /\ \A k \in 1..Len(h) : h[k] = chat_history[n - Len(h) + k]
           /\ call.caller = "auto" => h = chat_history /\ n = 1

\* a chat question of a session of more than HistoryWindow turns: the
\* first turn, the summary, is cut off the history handed over
C14_Witness ==
    /\ InRequest /\ pc = "returned" /\ call.caller = "chat"
    /\ Len(chat_history) = HistoryWindow + 1
    /\ Len(call.chat_history) = HistoryWindow
    /\ chat_history[1].is_json_summary
    /\ \A k \in 1..Len(call.chat_history) : ~call.chat_history[k].is_json_summary

----------------------------------------------------------------------------
(* C15, checked under SpecSession *)

PredefinedTexts == {PREDEFINED_QUESTIONS[k] : k \in QUESTION_OPTIONS \ {""}}

\* the step hands a question of the chat to the pipeline
SubmitsChat == call'.caller = "chat" /\ pc \in {"idle", "rerun"}

\* no trigger is left over when a script run has ended or waits for the pipeline
C15_TriggerCleared == predefined_question_trigger = << >>

\* a predefined question is submitted only by the script run of a click on
\* 'Hacer Pregunta Seleccionada', which appends one turn for it; a run
\* started by st.rerun() submits no question of the chat; and no script run
\* appends more than one turn
C15_SubmittedByClick ==
    /\ Len(chat_history') <= Len(chat_history) + 1
    /\ SubmitsChat =>
          /\ pc = "idle"
          /\ chat_history' = Append(chat_history,
                                    [question |-> call'.prompt_text,
                                     answer |-> <<PlaceholderChat>>,
                                     is_json_summary |-> FALSE])
          /\ call'.prompt_text \in PredefinedTexts => AskPredefined
    /\ (pc = "rerun" /\ Len(chat_history') > Len(chat_history)) => call'.caller = "auto"

\* C15: a click on 'Hacer Pregunta Seleccionada' submits the chosen question
\* at most once and appends at most one turn for it: the trigger is cleared
\* in the script run that consumes it, so no later run submits it again.
C15_OncePerClick == []C15_TriggerCleared /\ [][C15_SubmittedByClick]_vars

\* the predefined question of a click was answered and the script ran again
\* afterwards: the history holds the one turn of the click
C15_Witness ==
    /\ pc = "idle" /\ show_main_app
    /\ Len(chat_history) = 2
    /\ chat_history[2].question = PREDEFINED_QUESTIONS["Resumen del documento"]
    /\ chat_history[2].answer # <<PlaceholderChat>>
    /\ Len(rendered) = 1 /\ rendered[1] = chat_history[2].answer

----------------------------------------------------------------------------
(* C16, checked under SpecSession *)

\* the step issues the automatic summary question
IssuesAutoRun == call'.caller = "auto" /\ call.caller # "auto"

\* the automatic summary was issued and its request is over
SummaryDone == auto_run_complete /\ call.caller # "auto"

SummaryTurns(history) == {k \in 1..Len(history) : history[k].is_json_summary}

\* once the automatic summary is over, the history holds its one turn, the
\* first, and the summary data are what was extracted from its answer
C16_SummaryOfFirstSet ==
    SummaryDone =>
        /\ SummaryTurns(chat_history) = {1}
        /\ json_summary_data = extract_json_from_markdown(chat_history[1].answer).value

\* the automatic summary is issued only while auto_run_complete is not set
\* and a document is loaded; auto_run_complete, once set, stays set; and
\* after the summary nothing writes the summary data
C16_IssuedOnce ==
    /\ IssuesAutoRun =>
          /\ ~auto_run_complete /\ auto_run_complete'
          /\ file_docs # << >> \/ url_docs # << >>
          /\ call'.file_docs = file_docs /\ call'.url_docs = url_docs
    /\ auto_run_complete => auto_run_complete'
    /\ SummaryDone => json_summary_data' = json_summary_data

\* C16: the automatic summary question is issued at most once in a session,
\* and only when a document is loaded; after it no script run issues it
\* again, also not after 'Cargar nuevos documentos' and the loading of other
\* documents, so that the summary data shown as cards stay those of the
\* first document set.
C16_SummaryOncePerSession == []C16_SummaryOfFirstSet /\ [][C16_IssuedOnce]_vars

Mentions(text, name) == \E k \in 1..Len(text) : <<text[k]>> = name

\* other documents were loaded after the summary of the first set, and the
\* main page was shown again: the summary data are still those of the first set
C16_Witness ==
    /\ pc = "idle" /\ show_main_app /\ SummaryDone
    /\ json_summary_data # NoJson
    /\ Len(file_docs) = 1
    /\ ~Mentions(chat_history[1].answer, file_docs[1].name)
    /\ Mentions(chat_history[1].answer, <<"x.pdf">>)

====
